---- MODULE Spec2Model ----
(***************************************************************************)
(* Model of main.py: a FastAPI application with six route registrations    *)
(* (two of them duplicates of GET /items/{item_id}), the pydantic model    *)
(* Item, and the module-level list fake_items_db.                          *)
(*                                                                         *)
(* Texts (path segments, query values, body strings) are sequences of      *)
(* one-character strings, so that int("07") is computed digit by digit.    *)
(* Floats are fixed-point numbers counted in tenths (42.0 is 420, 3.2 is   *)
(* 32); IEEE rounding of price + tax is outside the model.                 *)
(***************************************************************************)
EXTENDS Integers, Sequences, FiniteSets, TLC

VARIABLES fake_items_db, routes, names, pc, tasks, active, universe

vars == <<fake_items_db, routes, names, pc, tasks, active, universe>>

(* Number of client connections the server handles concurrently. *)
NumClients == 2

Clients == 1..NumClients

----------------------------------------------------------------------------
(* Values: Python/JSON values carry their type as the record's field name. *)

Absent == [absent |-> TRUE]

Null == [null |-> TRUE]

Str(t) == [str |-> t]

Num(n) == [num |-> n]

IntV(i) == [int |-> i]

Obj == [obj |-> TRUE]

IsStr(v) == "str" \in DOMAIN v

IsNum(v) == "num" \in DOMAIN v

(* Texts used by the routes and by the inputs. *)
t_items == <<"i", "t", "e", "m", "s">>

t_users == <<"u", "s", "e", "r", "s">>

t_me == <<"m", "e">>

t_nope == <<"n", "o", "p", "e">>

t_Foo == <<"F", "o", "o">>

t_abc == <<"a", "b", "c">>

t_desc == <<"d">>

t_5 == <<"5">>

t_07 == <<"0", "7">>

t_x == <<"x">>

t_a == <<"a">>

----------------------------------------------------------------------------
(* class Item(BaseModel) and the decoding of a request body against it.    *)

ItemFields == {"name", "description", "price", "tax"}

RequiredFields == {"name", "price"}

(* The type a field's value must have once it is given and not defaulted. *)
FieldAccepts(f, v) ==
    CASE f = "name"        -> IsStr(v)
      [] f = "description" -> IsStr(v) \/ v = Null
      [] f = "price"       -> IsNum(v)
      [] f = "tax"         -> IsNum(v) \/ v = Null

(* Faulty variant: price declared with a default of 0.0. *)
FieldDefaultPrice(f) ==
    IF f = "name" THEN Absent ELSE IF f = "price" THEN Num(0) ELSE Null

(* The default of a field the body omits; Absent when it has none. *)
FieldDefault(f) == IF f \in RequiredFields THEN Absent ELSE Null

(* The fields of the body that fail validation: required and missing, or   *)
(* given with a value of the wrong type.  A missing body fails as a whole. *)
ItemErrors(body) ==
    IF body = Absent THEN {"body"}
    ELSE {f \in ItemFields :
            IF f \in DOMAIN body THEN ~FieldAccepts(f, body[f])
                                 ELSE FieldDefault(f) = Absent}

(* Faulty variant: a model that keeps the keys it does not declare. *)
DecodeItemExtras(body) ==
    [f \in ItemFields \cup DOMAIN body |->
        IF f \in DOMAIN body THEN body[f] ELSE FieldDefault(f)]

(* The decoded Item: declared fields only (unknown keys are ignored),      *)
(* omitted optional fields take their default.                             *)
DecodeItem(body) ==
    [f \in ItemFields |-> IF f \in DOMAIN body THEN body[f] ELSE FieldDefault(f)]

(* item.dict() *)
dict(item) == [f \in DOMAIN item |-> item[f]]

(* Python truthiness of an Optional[float] and of an Optional[str]. *)
TruthyFloat(v) == v # Null /\ v.num # 0

TruthyStr(v) == v # Null /\ v.str # <<>>

----------------------------------------------------------------------------
(* fake_items_db as assigned at module level. *)
FakeItems ==
    << [name |-> "Foo", description |-> "There comes my hero",
        price |-> 420, tax |-> 32],
       [name |-> "Bar", description |-> "The bartenders",
        price |-> 620, tax |-> 19],
       [name |-> "Baz", description |-> "The beautiful bartender",
        price |-> 120, tax |-> 19] >>

----------------------------------------------------------------------------
(* The handlers.  Each returns the response mapping it builds.             *)

root == [message |-> "Hello World"]

(* Faulty variant: the answer a /users/{user_id} handler would give. *)
read_user_me_param == [user_id |-> "me"]

read_user_me == [user_id |-> "the current user"]

(* Faulty variant: q tested against None instead of for truthiness. *)
read_item_q_notnone(item_id, q) ==
    IF q # Null THEN [item_id |-> item_id, q |-> q]
                ELSE [item_id |-> item_id]

(* Faulty variant: the handler reports how many responses are outstanding. *)
read_item_q_counting(item_id, q) ==
    IF TruthyStr(q) THEN [item_id |-> item_id, q |-> q]
    ELSE [item_id |-> item_id,
          pending |-> Cardinality({c \in Clients : tasks[c].stage = "done"})]

read_item_q(item_id, q) ==
    IF TruthyStr(q) THEN [item_id |-> item_id, q |-> q]
                    ELSE [item_id |-> item_id]

read_item_plain(item_id) == [item_id |-> item_id]

(* Faulty variant: tax tested against None, so a zero tax is added too. *)
create_item_post_notnone(item) ==
    LET item_dict == dict(item)
    IN  IF item.tax # Null
        THEN ("price_with_tax" :> Num(item.price.num + item.tax.num)) @@ item_dict
        ELSE item_dict

(* Faulty variant: only a positive tax is added. *)
create_item_post_positive(item) ==
    LET item_dict == dict(item)
    IN  IF item.tax # Null /\ item.tax.num > 0
        THEN ("price_with_tax" :> Num(item.price.num + item.tax.num)) @@ item_dict
        ELSE item_dict

create_item_post(item) ==
    LET item_dict == dict(item)
    IN  IF TruthyFloat(item.tax)
        THEN LET price_with_tax == item.price.num + item.tax.num
             IN  ("price_with_tax" :> Num(price_with_tax)) @@ item_dict
        ELSE item_dict

(* {"item_id": item_id, **item.dict()}: later keys override earlier ones. *)
create_item_put(item_id, item) == dict(item) @@ [item_id |-> item_id]

----------------------------------------------------------------------------
(* Path parameter conversion to int, as int(text) computes it.             *)

Digits == {"0", "1", "2", "3", "4", "5", "6", "7", "8", "9"}

DigitVal(ch) ==
    CASE ch = "0" -> 0 [] ch = "1" -> 1 [] ch = "2" -> 2 [] ch = "3" -> 3
      [] ch = "4" -> 4 [] ch = "5" -> 5 [] ch = "6" -> 6 [] ch = "7" -> 7
      [] ch = "8" -> 8 [] ch = "9" -> 9

IsIntText(t) == Len(t) > 0 /\ \A i \in 1..Len(t) : t[i] \in Digits

RECURSIVE ParseInt(_)
ParseInt(t) ==
    IF t = <<>> THEN 0
    ELSE ParseInt(SubSeq(t, 1, Len(t) - 1)) * 10 + DigitVal(t[Len(t)])

----------------------------------------------------------------------------
(* The route registrations of the module, in source order.  A path is the  *)
(* sequence of its segments ("/items/" is <<items, <<>>>>); a template     *)
(* segment is a literal or a named parameter.                              *)

Lit(t) == [lit |-> t]

Param(n) == [param |-> n]

(* Faulty variant: the two GET /items/{item_id} definitions in the other    *)
(* order.                                                                  *)
RouteDeclsSwapped ==
    << [method |-> "GET",  template |-> <<Lit(<<>>)>>,
        name |-> "root", fn |-> "root"],
       [method |-> "GET",  template |-> <<Lit(t_users), Lit(t_me)>>,
        name |-> "read_user_me", fn |-> "read_user_me"],
       [method |-> "GET",  template |-> <<Lit(t_items), Param("item_id")>>,
        name |-> "read_item", fn |-> "read_item_plain"],
       [method |-> "GET",  template |-> <<Lit(t_items), Param("item_id")>>,
        name |-> "read_item", fn |-> "read_item_q"],
       [method |-> "POST", template |-> <<Lit(t_items), Lit(<<>>)>>,
        name |-> "create_item", fn |-> "create_item_post"],
       [method |-> "PUT",  template |-> <<Lit(t_items), Param("item_id")>>,
        name |-> "create_item", fn |-> "create_item_put"] >>

RouteDecls ==
    << [method |-> "GET",  template |-> <<Lit(<<>>)>>,
        name |-> "root", fn |-> "root"],
       [method |-> "GET",  template |-> <<Lit(t_users), Lit(t_me)>>,
        name |-> "read_user_me", fn |-> "read_user_me"],
       [method |-> "GET",  template |-> <<Lit(t_items), Param("item_id")>>,
        name |-> "read_item", fn |-> "read_item_q"],
       [method |-> "GET",  template |-> <<Lit(t_items), Param("item_id")>>,
        name |-> "read_item", fn |-> "read_item_plain"],
       [method |-> "POST", template |-> <<Lit(t_items), Lit(<<>>)>>,
        name |-> "create_item", fn |-> "create_item_post"],
       [method |-> "PUT",  template |-> <<Lit(t_items), Param("item_id")>>,
        name |-> "create_item", fn |-> "create_item_put"] >>

FunctionNames == {"root", "read_user_me", "read_item", "create_item"}

(* The parameters each handler declares: the type of item_id ("none" when  *)
(* it has no such parameter), whether it takes q, whether it takes an Item.*)
Signature(fn) ==
    CASE fn = "root"             -> [item_id |-> "none", q |-> FALSE, item |-> FALSE]
      [] fn = "read_user_me"     -> [item_id |-> "none", q |-> FALSE, item |-> FALSE]
      [] fn = "read_item_q"      -> [item_id |-> "str",  q |-> TRUE,  item |-> FALSE]
      [] fn = "read_item_plain"  -> [item_id |-> "str",  q |-> FALSE, item |-> FALSE]
      [] fn = "create_item_post" -> [item_id |-> "none", q |-> FALSE, item |-> TRUE]
      [] fn = "create_item_put"  -> [item_id |-> "int",  q |-> FALSE, item |-> TRUE]

(* Faulty variant: the route looks its function up by name at call time. *)
EndpointByName(route) == names[route.name]

(* The function object a route calls: the one the decorator was given. *)
Endpoint(route) == route.endpoint

----------------------------------------------------------------------------
(* Dispatch of a request over the route table.                             *)

PathMatches(template, path) ==
    /\ Len(template) = Len(path)
    /\ \A i \in 1..Len(template) :
          IF "lit" \in DOMAIN template[i] THEN template[i].lit = path[i]
                                          ELSE path[i] # <<>>

FullMatches(rts, req) ==
    {i \in 1..Len(rts) : /\ PathMatches(rts[i].template, req.path)
                         /\ rts[i].method = req.method}

PartialMatches(rts, req) ==
    {i \in 1..Len(rts) : PathMatches(rts[i].template, req.path)}

Min(S) == CHOOSE i \in S : \A j \in S : i <= j

(* The first registered route that matches path and method wins; a path    *)
(* that matches under another method only is "method not allowed".         *)
Dispatch(rts, req) ==
    IF FullMatches(rts, req) # {}
    THEN [kind |-> "full", idx |-> Min(FullMatches(rts, req))]
    ELSE IF PartialMatches(rts, req) # {}
         THEN [kind |-> "partial", idx |-> 0]
         ELSE [kind |-> "none", idx |-> 0]

----------------------------------------------------------------------------
(* Binding of the request to the handler's parameters.                     *)

HasParam(route, n) ==
    \E i \in 1..Len(route.template) : route.template[i] = Param(n)

PathParam(route, path, n) ==
    path[CHOOSE i \in 1..Len(route.template) : route.template[i] = Param(n)]

BindErrors(fn, route, req) ==
    LET sig == Signature(fn)
    IN  (IF sig.item_id = "none" THEN {}
         ELSE IF ~HasParam(route, "item_id") THEN {"item_id"}
         ELSE IF sig.item_id = "int"
                   /\ ~IsIntText(PathParam(route, req.path, "item_id"))
              THEN {"item_id"} ELSE {})
        \cup (IF sig.item THEN ItemErrors(req.body) ELSE {})

BindArgs(fn, route, req) ==
    LET sig == Signature(fn)
    IN  [item_id |-> CASE sig.item_id = "none" -> Absent
                       [] sig.item_id = "str"  ->
                            Str(PathParam(route, req.path, "item_id"))
                       [] sig.item_id = "int"  ->
                            IntV(ParseInt(PathParam(route, req.path, "item_id"))),
         q       |-> IF sig.q /\ "q" \in DOMAIN req.query
                     THEN Str(req.query.q) ELSE Null,
         item    |-> IF sig.item THEN DecodeItem(req.body) ELSE Absent]

(* Faulty variant: POST /items/ stores the item it created. *)
InvokeStoring(fn, args, db) ==
    [db   |-> IF fn = "create_item_post" THEN Append(db, args.item) ELSE db,
     body |-> CASE fn = "root"             -> root
                [] fn = "read_user_me"     -> read_user_me
                [] fn = "read_item_q"      -> read_item_q(args.item_id, args.q)
                [] fn = "read_item_plain"  -> read_item_plain(args.item_id)
                [] fn = "create_item_post" -> create_item_post(args.item)
                [] fn = "create_item_put"  -> create_item_put(args.item_id, args.item)]

(* The call of the handler with its bound arguments: the response mapping  *)
(* it returns and the value it leaves in fake_items_db.                    *)
Invoke(fn, args, db) ==
    [db   |-> db,
     body |-> CASE fn = "root"             -> root
                [] fn = "read_user_me"     -> read_user_me
                [] fn = "read_item_q"      -> read_item_q(args.item_id, args.q)
                [] fn = "read_item_plain"  -> read_item_plain(args.item_id)
                [] fn = "create_item_post" -> create_item_post(args.item)
                [] fn = "create_item_put"  -> create_item_put(args.item_id, args.item)]

----------------------------------------------------------------------------
(* Requests the clients issue.                                             *)

NoQuery == [k \in {} |-> <<>>]

Queries == {NoQuery, [q |-> <<>>], [q |-> t_a]}

(* A JSON object body: the keys whose value is not Absent. *)
MakeBody(raw) == [k \in {k \in DOMAIN raw : raw[k] # Absent} |-> raw[k]]

CoreBodies ==
    {MakeBody(raw) : raw \in [name  : {Str(t_Foo)},
                              price : {Absent, Num(420)},
                              tax   : {Absent, Num(0), Num(32)}]}

WideBodies ==
    {MakeBody(raw) :
        raw \in [name        : {Absent, Null, Obj, Str(t_Foo)},
                 description : {Absent, Null, Str(t_desc)},
                 price       : {Absent, Null, Str(t_abc), Num(0), Num(420)},
                 tax         : {Absent, Null, Str(t_abc), Num(0), Num(32), Num(-420)},
                 item_id     : {Absent, Num(990)}]}

StaticPaths == {<< <<>> >>, <<t_users, t_me>>, <<t_nope>>, <<t_items, <<>>>>}

Request(m, p, qy, b) == [method |-> m, path |-> p, query |-> qy, body |-> b]

Requests(ids, bodies) ==
    {Request("GET", p, qy, Absent) :
        p \in StaticPaths \cup {<<t_items, id>> : id \in ids}, qy \in Queries}
    \cup {Request("POST", <<t_items, <<>>>>, NoQuery, b) : b \in bodies \cup {Absent}}
    \cup {Request("POST", << <<>> >>, NoQuery, Absent)}
    \cup {Request("PUT", <<t_items, id>>, NoQuery, b) : id \in ids, b \in bodies}

CoreRequests == Requests({t_07, t_x}, CoreBodies)

WideRequests == Requests({t_5, t_07, t_x}, WideBodies)

----------------------------------------------------------------------------
(* The server.                                                             *)

IdleTask == [stage |-> "idle", req |-> Absent, resp |-> Absent, ran |-> "none"]

Response(status, kind, body) == [status |-> status, kind |-> kind, body |-> body]

Loaded == pc > Len(RouteDecls)

Init ==
    /\ fake_items_db = FakeItems
    /\ routes = <<>>
    /\ names = [n \in FunctionNames |-> "unbound"]
    /\ pc = 1
    /\ tasks = [c \in Clients |-> IdleTask]
    /\ active = Clients
    /\ universe = CoreRequests

(* One client at a time, issuing the wide range of requests. *)
InitSeq ==
    /\ fake_items_db = FakeItems
    /\ routes = <<>>
    /\ names = [n \in FunctionNames |-> "unbound"]
    /\ pc = 1
    /\ tasks = [c \in Clients |-> IdleTask]
    /\ active = {1}
    /\ universe = WideRequests

(* The next decorated definition of the module: the function object is     *)
(* added to the route table and then bound to its name.                    *)
Register ==
    /\ ~Loaded
    /\ LET d == RouteDecls[pc]
       IN  /\ routes' = Append(routes, [method |-> d.method, template |-> d.template,
                                        name |-> d.name, endpoint |-> d.fn])
           /\ names' = [names EXCEPT ![d.name] = d.fn]
    /\ pc' = pc + 1
    /\ UNCHANGED <<fake_items_db, tasks, active, universe>>

Receive(c) ==
    /\ Loaded
    /\ c \in active
    /\ tasks[c].stage = "idle"
    /\ \E req \in universe :
          tasks' = [tasks EXCEPT ![c] = [stage |-> "received", req |-> req,
                                         resp |-> Absent, ran |-> "none"]]
    /\ UNCHANGED <<fake_items_db, routes, names, pc, active, universe>>

Finish(c, resp, ran) ==
    tasks' = [tasks EXCEPT ![c] = [stage |-> "done", req |-> tasks[c].req,
                                   resp |-> resp, ran |-> ran]]

NotFound(c) ==
    /\ tasks[c].stage = "received"
    /\ Dispatch(routes, tasks[c].req).kind = "none"
    /\ Finish(c, Response(404, "NotFound", Absent), "none")
    /\ UNCHANGED <<fake_items_db, routes, names, pc, active, universe>>

MethodNotAllowed(c) ==
    /\ tasks[c].stage = "received"
    /\ Dispatch(routes, tasks[c].req).kind = "partial"
    /\ Finish(c, Response(405, "MethodNotAllowed", Absent), "none")
    /\ UNCHANGED <<fake_items_db, routes, names, pc, active, universe>>

Invalid(c) ==
    /\ tasks[c].stage = "received"
    /\ LET req == tasks[c].req
           d   == Dispatch(routes, req)
       IN  /\ d.kind = "full"
           /\ LET route  == routes[d.idx]
                  errors == BindErrors(Endpoint(route), route, req)
              IN  /\ errors # {}
                  /\ Finish(c, Response(422, "ValidationError", [detail |-> errors]),
                            "none")
    /\ UNCHANGED <<fake_items_db, routes, names, pc, active, universe>>

Handle(c) ==
    /\ tasks[c].stage = "received"
    /\ LET req == tasks[c].req
           d   == Dispatch(routes, req)
       IN  /\ d.kind = "full"
           /\ LET route == routes[d.idx]
                  fn    == Endpoint(route)
              IN  /\ BindErrors(fn, route, req) = {}
                  /\ LET out == Invoke(fn, BindArgs(fn, route, req), fake_items_db)
                     IN  /\ Finish(c, Response(200, "OK", out.body), fn)
                         /\ fake_items_db' = out.db
    /\ UNCHANGED <<routes, names, pc, active, universe>>

Complete(c) ==
    /\ tasks[c].stage = "done"
    /\ tasks' = [tasks EXCEPT ![c] = IdleTask]
    /\ UNCHANGED <<fake_items_db, routes, names, pc, active, universe>>

Next ==
    \/ Register
    \/ \E c \in Clients : Receive(c)
    \/ \E c \in Clients : NotFound(c)
    \/ \E c \in Clients : MethodNotAllowed(c)
    \/ \E c \in Clients : Invalid(c)
    \/ \E c \in Clients : Handle(c)
    \/ \E c \in Clients : Complete(c)

Spec == Init /\ [][Next]_vars

SpecSeq == InitSeq /\ [][Next]_vars

----------------------------------------------------------------------------
(* Vocabulary of the properties.                                           *)

Done(c) == tasks[c].stage = "done"

IsGet(req, path) == req.method = "GET" /\ req.path = path

IsGetItem(req) ==
    req.method = "GET" /\ Len(req.path) = 2 /\ req.path[1] = t_items /\ req.path[2] # <<>>

IsPostItems(req) == req.method = "POST" /\ req.path = <<t_items, <<>>>>

IsPutItem(req) ==
    req.method = "PUT" /\ Len(req.path) = 2 /\ req.path[1] = t_items /\ req.path[2] # <<>>

(* The value the body gives for a key; null when the key is omitted. *)
Given(b, k) == IF k \in DOMAIN b THEN b[k] ELSE Null

ValidItemBody(b) ==
    /\ b # Absent
    /\ "name" \in DOMAIN b /\ "str" \in DOMAIN b.name
    /\ "price" \in DOMAIN b /\ "num" \in DOMAIN b.price
    /\ Given(b, "description") = Null \/ "str" \in DOMAIN Given(b, "description")
    /\ Given(b, "tax") = Null \/ "num" \in DOMAIN Given(b, "tax")

TaxNonZero(b) == Given(b, "tax") # Null /\ Given(b, "tax") # Num(0)

EchoesItem(body, b) ==
    /\ body.name = b.name
    /\ body.description = Given(b, "description")
    /\ body.price = b.price
    /\ body.tax = Given(b, "tax")

(* C1: a valid Item body whose tax is omitted, null or zero is answered by *)
(* POST /items/ with exactly the four decoded item fields and without      *)
(* price_with_tax.                                                         *)
C1_NoTaxNoPriceWithTax ==
    \A c \in Clients :
        (Done(c) /\ IsPostItems(tasks[c].req) /\ ValidItemBody(tasks[c].req.body)
                 /\ ~TaxNonZero(tasks[c].req.body))
        => /\ tasks[c].resp.status = 200
           /\ DOMAIN tasks[c].resp.body = {"name", "description", "price", "tax"}
           /\ EchoesItem(tasks[c].resp.body, tasks[c].req.body)

C1_Witness ==
    \E c \in Clients :
        /\ Done(c) /\ IsPostItems(tasks[c].req) /\ ValidItemBody(tasks[c].req.body)
        /\ Given(tasks[c].req.body, "tax") = Num(0)
        /\ tasks[c].ran = "create_item_post"
        /\ tasks[c].resp.body.tax = Num(0)

(* C2: a valid Item body whose tax is present and non-zero, positive or    *)
(* negative, is answered by POST /items/ with the four decoded item fields *)
(* plus price_with_tax = price + tax.                                      *)
C2_TaxAddsPriceWithTax ==
    \A c \in Clients :
        (Done(c) /\ IsPostItems(tasks[c].req) /\ ValidItemBody(tasks[c].req.body)
                 /\ TaxNonZero(tasks[c].req.body))
        => /\ tasks[c].resp.status = 200
           /\ DOMAIN tasks[c].resp.body =
                 {"name", "description", "price", "tax", "price_with_tax"}
           /\ EchoesItem(tasks[c].resp.body, tasks[c].req.body)
           /\ tasks[c].resp.body.price_with_tax =
                 Num(tasks[c].req.body.price.num + tasks[c].req.body.tax.num)

(* name Foo, price 42.0, tax 3.2 gives price_with_tax 45.2 *)
C2_Witness ==
    \E c \in Clients :
        /\ Done(c) /\ IsPostItems(tasks[c].req)
        /\ tasks[c].req.body = [name |-> Str(t_Foo), price |-> Num(420), tax |-> Num(32)]
        /\ tasks[c].resp.body =
              [name |-> Str(t_Foo), description |-> Null, price |-> Num(420),
               tax |-> Num(32), price_with_tax |-> Num(452)]

(* C3: GET /items/{item_id} answers {item_id, q} when q is supplied and    *)
(* non-empty and {item_id} when q is absent or empty; item_id is echoed as *)
(* the same text.                                                          *)
C3_ReadItemEcho ==
    \A c \in Clients :
        (Done(c) /\ IsGetItem(tasks[c].req))
        => /\ tasks[c].resp.status = 200
           /\ tasks[c].resp.body =
                 IF "q" \in DOMAIN tasks[c].req.query /\ tasks[c].req.query.q # <<>>
                 THEN [item_id |-> Str(tasks[c].req.path[2]),
                       q |-> Str(tasks[c].req.query.q)]
                 ELSE [item_id |-> Str(tasks[c].req.path[2])]

C3_Witness ==
    \E c \in Clients :
        /\ Done(c) /\ IsGetItem(tasks[c].req)
        /\ tasks[c].req.path[2] = t_07
        /\ tasks[c].req.query = [q |-> <<>>]
        /\ tasks[c].resp.body = [item_id |-> Str(t_07)]

(* C4: PUT /items/{item_id} with an integer item_id and a valid Item body  *)
(* answers exactly item_id, name, description, price and tax: item_id is   *)
(* the integer of the path, no item field overrides it, and price_with_tax *)
(* is never added.                                                         *)
C4_PutMergesItemId ==
    \A c \in Clients :
        (Done(c) /\ IsPutItem(tasks[c].req) /\ IsIntText(tasks[c].req.path[2])
                 /\ ValidItemBody(tasks[c].req.body))
        => /\ tasks[c].resp.status = 200
           /\ DOMAIN tasks[c].resp.body =
                 {"item_id", "name", "description", "price", "tax"}
           /\ "int" \in DOMAIN tasks[c].resp.body.item_id
           /\ tasks[c].req.path[2] = t_5 => tasks[c].resp.body.item_id = IntV(5)
           /\ tasks[c].req.path[2] = t_07 => tasks[c].resp.body.item_id = IntV(7)
           /\ EchoesItem(tasks[c].resp.body, tasks[c].req.body)

C4_Witness ==
    \E c \in Clients :
        /\ Done(c) /\ IsPutItem(tasks[c].req) /\ tasks[c].req.path[2] = t_5
        /\ ValidItemBody(tasks[c].req.body)
        /\ Given(tasks[c].req.body, "item_id") = Num(990)
        /\ Given(tasks[c].req.body, "tax") = Num(32)
        /\ tasks[c].resp.body.item_id = IntV(5)
        /\ tasks[c].resp.body.description = Null

(* C5: a POST /items/ body that lacks name or price, or gives either with  *)
(* a wrong type, ends in a ValidationError: the handler is not executed,   *)
(* no success response is produced, and the outcome is not a 5xx.          *)
C5_InvalidBodyRejected ==
    \A c \in Clients :
        (/\ Done(c) /\ IsPostItems(tasks[c].req)
         /\ \/ tasks[c].req.body = Absent
            \/ "name" \notin DOMAIN tasks[c].req.body
            \/ "price" \notin DOMAIN tasks[c].req.body
            \/ "str" \notin DOMAIN tasks[c].req.body.name
            \/ "num" \notin DOMAIN tasks[c].req.body.price)
        => /\ tasks[c].resp.kind = "ValidationError"
           /\ tasks[c].resp.status = 422
           /\ tasks[c].ran = "none"
           /\ DOMAIN tasks[c].resp.body = {"detail"}

C5_Witness ==
    \E c \in Clients :
        /\ Done(c) /\ IsPostItems(tasks[c].req)
        /\ tasks[c].req.body = [name |-> Str(t_Foo)]
        /\ tasks[c].resp.status = 422
        /\ tasks[c].resp.body.detail = {"price"}

(* C6: GET / always answers {"message": "Hello World"} and GET /users/me   *)
(* always answers {"user_id": "the current user"}, each from its own       *)
(* parameterless handler, whatever else was or is being served.            *)
C6_StaticRoutes ==
    \A c \in Clients :
        /\ (Done(c) /\ IsGet(tasks[c].req, << <<>> >>))
           => /\ tasks[c].resp = Response(200, "OK", [message |-> "Hello World"])
              /\ tasks[c].ran = "root"
        /\ (Done(c) /\ IsGet(tasks[c].req, <<t_users, t_me>>))
           => /\ tasks[c].resp = Response(200, "OK", [user_id |-> "the current user"])
              /\ tasks[c].ran = "read_user_me"

C6_Witness ==
    \E c, d \in Clients :
        /\ c # d
        /\ Done(c) /\ IsGet(tasks[c].req, <<t_users, t_me>>)
        /\ tasks[c].resp.body = [user_id |-> "the current user"]
        /\ Done(d) /\ IsGet(tasks[d].req, << <<>> >>)
        /\ tasks[d].resp.body = [message |-> "Hello World"]

(* C7: no GET /items/{item_id} request is served by the second registered  *)
(* handler: the first one serves it, so a request with a non-empty q gets  *)
(* a response that carries q.                                              *)
C7_FirstRegistrationWins ==
    \A c \in Clients :
        /\ tasks[c].ran # "read_item_plain"
        /\ (Done(c) /\ IsGetItem(tasks[c].req))
           => /\ tasks[c].ran = "read_item_q"
              /\ ("q" \in DOMAIN tasks[c].req.query /\ tasks[c].req.query.q # <<>>)
                 => "q" \in DOMAIN tasks[c].resp.body

C7_Witness ==
    \E c \in Clients :
        /\ Len(routes) = 6
        /\ routes[4].endpoint = "read_item_plain"
        /\ Done(c) /\ IsGetItem(tasks[c].req)
        /\ tasks[c].req.query = [q |-> t_a]
        /\ tasks[c].resp.body.q = Str(t_a)

(* C8: fake_items_db holds its three initial records Foo, Bar and Baz, in  *)
(* order and unchanged, in every state, whatever requests were served.     *)
C8_FakeItemsDbUnchanged ==
    /\ Len(fake_items_db) = 3
    /\ fake_items_db[1] = [name |-> "Foo", description |-> "There comes my hero",
                           price |-> 420, tax |-> 32]
    /\ fake_items_db[2] = [name |-> "Bar", description |-> "The bartenders",
                           price |-> 620, tax |-> 19]
    /\ fake_items_db[3] = [name |-> "Baz", description |-> "The beautiful bartender",
                           price |-> 120, tax |-> 19]

C8_Witness ==
    \E c, d \in Clients :
        /\ Done(c) /\ tasks[c].ran = "create_item_post"
        /\ Done(d) /\ tasks[d].resp.status = 422
        /\ Len(fake_items_db) = 3

(* C9: the response to a request depends on that request only: two         *)
(* requests that are equal get equal responses from the same handler,      *)
(* however they interleave with others, and every item field in a          *)
(* response is the one its own request's body gave.                        *)
C9_ResponseDependsOnRequestOnly ==
    /\ \A c, d \in Clients :
          (Done(c) /\ Done(d) /\ tasks[c].req = tasks[d].req)
          => (tasks[c].resp = tasks[d].resp /\ tasks[c].ran = tasks[d].ran)
    /\ \A c \in Clients :
          (Done(c) /\ tasks[c].resp.status = 200)
          => /\ DOMAIN tasks[c].resp.body \subseteq
                   {"message", "user_id", "item_id", "q", "price_with_tax"}
                   \cup ItemFields
             /\ \A k \in DOMAIN tasks[c].resp.body \cap ItemFields :
                   /\ tasks[c].req.body # Absent
                   /\ tasks[c].resp.body[k] = Given(tasks[c].req.body, k)

C9_Witness ==
    \E c, d \in Clients :
        /\ c # d
        /\ Done(c) /\ Done(d)
        /\ tasks[c].req = tasks[d].req
        /\ tasks[c].ran = "read_item_q"
        /\ "q" \notin DOMAIN tasks[c].resp.body

(* C10: a route keeps the function it was registered with: once the module *)
(* is loaded the names create_item and read_item are bound to the second   *)
(* definitions, yet POST /items/ is served by the first create_item (the   *)
(* one that computes price_with_tax) and PUT /items/{item_id} by the       *)
(* second.                                                                 *)
C10_RoutesKeepTheirFunction ==
    /\ Len(routes) >= 3 => routes[3].endpoint = "read_item_q"
    /\ Len(routes) >= 5 => routes[5].endpoint = "create_item_post"
    /\ Loaded => /\ names["create_item"] = "create_item_put"
                 /\ names["read_item"] = "read_item_plain"
    /\ \A c \in Clients :
          /\ (Done(c) /\ IsPostItems(tasks[c].req) /\ ValidItemBody(tasks[c].req.body))
             => /\ tasks[c].ran = "create_item_post"
                /\ TaxNonZero(tasks[c].req.body)
                   => "price_with_tax" \in DOMAIN tasks[c].resp.body
          /\ (Done(c) /\ IsPutItem(tasks[c].req) /\ tasks[c].resp.status = 200)
             => tasks[c].ran = "create_item_put"

C10_Witness ==
    \E c, d \in Clients :
        /\ names["create_item"] = "create_item_put"
        /\ Done(c) /\ IsPostItems(tasks[c].req)
        /\ tasks[c].ran = "create_item_post"
        /\ "price_with_tax" \in DOMAIN tasks[c].resp.body
        /\ Done(d) /\ IsPutItem(tasks[d].req)
        /\ tasks[d].ran = "create_item_put"

====
